---------------------------- MODULE Spec2Model ----------------------------
(***************************************************************************)
(* Akumuli storage core: the page (src/src/page.cpp), the volume ring      *)
(* (src/src/storage.cpp) and the cursor protocol (src/src/cursor.h).       *)
(*                                                                         *)
(* Memory is modelled as an array of cells.  One cell holds one scalar     *)
(* field (a uint32_t, an EntryOffset, a ParamId, a TimeStamp, a pointer),  *)
(* so every sizeof is counted in cells.  A page is its header fields plus  *)
(* the cells [SizeofHeader, length): the index array page_index grows up   *)
(* from SizeofHeader, the record heap grows down from last_offset, and     *)
(* both live in the same cells, exactly as in the mapped file.             *)
(***************************************************************************)
EXTENDS Integers, Sequences, FiniteSets, TLC

\* ------------------------------------------------------------------ bounds

\* Largest ParamId the writers use (ParamId is 0..MaxParam).
MaxParam == 1
\* Largest ordinary timestamp the writers use.
MaxTs == 1
\* Smallest timestamp the writers use (TimeStamp is a signed int64_t).
MinTs == 0 - 1
\* Cells between the header and the end of the page in the page-level model.
HeapCells == 9
\* Largest payload (cells) of a record appended in the page-level model.
MaxPayload == 1
\* Cap on the add_entry calls made on the page of the page-level model.
MaxAdds == 3
\* Entries the page of the search model has room for.
MaxEntries == 3
\* Largest number of volumes a storage is created with.
MaxVolumes == 2
\* Cap on a volume's open_count in the storage model (rotation is otherwise
\* unbounded).
MaxEpoch == 3
\* Most results a producer puts into a cursor.
MaxItems == 4
\* Largest buffer a consumer hands to CoroCursor::read.
MaxBuf == 2
\* Most input cursors of a fan-in merger.
MaxSources == 2
\* Most results one input cursor of a fan-in merger holds.
MaxRun == 2
\* Cap on the reuse calls made on the page of the page-level model.
MaxOpen == 1

\* ------------------------------------------------- program constants, scaled

\* std::numeric_limits<uint32_t>::max(), scaled to 5 bits.
UINT32_MAX == 2^5 - 1
\* uint32_t arithmetic is modulo UINT32_MAX + 1.
U32(x) == x % (UINT32_MAX + 1)
\* std::numeric_limits<int64_t>::max(), scaled: the largest timestamp there is.
MAX_TIMESTAMP == MaxTs + 1
\* TimeStamp::MIN_TIMESTAMP = {0L}
MIN_TIMESTAMP == 0
\* The modulus of uint64_t, scaled (used by sort's cast of time.value).
UINT64_MOD == 2^8

\* sizeof, in cells.  PageHeader: type, count, last_offset, sync_index, length,
\* open_count, close_count, page_id and the four bbox scalars.
SizeofHeader == 12
\* Entry: param_id, time, length; value[] follows.
SizeofEntry == 3
\* Entry2: param_id, time, range.address, range.length.
SizeofEntry2 == 4
SizeofEntryOffset == 1
SizeofUint32 == 1

AKU_WRITE_STATUS_SUCCESS == "SUCCESS"
AKU_WRITE_STATUS_OVERFLOW == "OVERFLOW"
AKU_WRITE_STATUS_BAD_DATA == "BAD_DATA"

Params == 0..MaxParam
Times == MinTs..MAX_TIMESTAMP

\* ------------------------------------------------------------------- page

\* PageBoundingBox::PageBoundingBox(): the inverted box.
PageBoundingBox ==
    [max_id |-> 0, min_id |-> UINT32_MAX,
     max_timestamp |-> MIN_TIMESTAMP, min_timestamp |-> MAX_TIMESTAMP]

\* The cells of a page outside its header.
Cells(length) == SizeofHeader..(length - 1)

\* PageHeader::PageHeader(type, count, length, page_id) on a zero-filled file
\* (create_file truncates a new file to its size, so its bytes read as 0).
PageHeader(type, count, length, page_id) ==
    [type |-> type, count |-> count, last_offset |-> length - 1,
     sync_index |-> 0, length |-> length, open_count |-> 0,
     close_count |-> 0, page_id |-> page_id, bbox |-> PageBoundingBox,
     mem |-> [a \in Cells(length) |-> 0]]

\* Address of page_index[i].
IndexAddr(i) == SizeofHeader + i * SizeofEntryOffset

\* PageHeader::get_free_space(): end - begin, an int that may be negative.
get_free_space(p) == p.last_offset - IndexAddr(p.count)

\* PageHeader::update_bounding_box
update_bounding_box(b, param, time) ==
    [max_id |-> IF param > b.max_id THEN param ELSE b.max_id,
     min_id |-> IF param < b.min_id THEN param ELSE b.min_id,
     max_timestamp |-> IF time > b.max_timestamp THEN time ELSE b.max_timestamp,
     min_timestamp |-> IF time < b.min_timestamp THEN time ELSE b.min_timestamp]

\* PageHeader::inside_bbox
inside_bbox(p, param, time) ==
    /\ time <= p.bbox.max_timestamp
    /\ time >= p.bbox.min_timestamp
    /\ param <= p.bbox.max_id
    /\ param >= p.bbox.min_id

\* reuse() without the reset of last_offset.
C18_reuse_keeps_heap(p) ==
    [p EXCEPT !.count = 0, !.open_count = U32(p.open_count + 1),
              !.bbox = PageBoundingBox]

\* PageHeader::reuse(): sync_index is not among the fields it resets.
reuse(p) ==
    [p EXCEPT !.count = 0, !.open_count = U32(p.open_count + 1),
              !.last_offset = p.length - 1, !.bbox = PageBoundingBox]

\* PageHeader::close()
close(p) == [p EXCEPT !.close_count = U32(p.close_count + 1)]

\* memcpy of the cells `src` to address `at` of the page memory.
Memcpy(mem, at, src) ==
    [a \in DOMAIN mem |->
        IF a >= at /\ a < at + Len(src) THEN src[a - at + 1] ELSE mem[a]]

\* `space_required > get_free_space()`: size_t against int.  The int is
\* converted to size_t, so a negative free space compares as a huge value.
SizeTGreater(required, free) == IF free < 0 THEN FALSE ELSE required > free

\* The cells of an Entry object: param_id, time, length, value[].
EntryCells(e) == <<e.param_id, e.time, e.length>> \o e.value

\* add_entry(Entry const&) with the bounding box updated ahead of the checks.
C4_add_entry_eager(p, e) ==
    LET q == [p EXCEPT !.bbox = update_bounding_box(p.bbox, e.param_id, e.time)]
        space_required == e.length + SizeofEntryOffset
        free_slot == p.last_offset - e.length
        copied == Memcpy(p.mem, free_slot, SubSeq(EntryCells(e), 1, e.length))
    IN  IF e.length < SizeofEntry
        THEN [status |-> AKU_WRITE_STATUS_BAD_DATA, page |-> q]
        ELSE IF SizeTGreater(space_required, get_free_space(p))
        THEN [status |-> AKU_WRITE_STATUS_OVERFLOW, page |-> q]
        ELSE [status |-> AKU_WRITE_STATUS_SUCCESS,
              page |-> [q EXCEPT
                  !.mem = [copied EXCEPT ![IndexAddr(p.count)] = free_slot],
                  !.last_offset = free_slot,
                  !.count = U32(p.count + 1)]]

\* PageHeader::add_entry(Entry const&): [status, page].
add_entry(p, e) ==
    LET space_required == e.length + SizeofEntryOffset
        free_slot == p.last_offset - e.length
        copied == Memcpy(p.mem, free_slot, SubSeq(EntryCells(e), 1, e.length))
    IN  IF e.length < SizeofEntry
        THEN [status |-> AKU_WRITE_STATUS_BAD_DATA, page |-> p]
        ELSE IF SizeTGreater(space_required, get_free_space(p))
        THEN [status |-> AKU_WRITE_STATUS_OVERFLOW, page |-> p]
        ELSE [status |-> AKU_WRITE_STATUS_SUCCESS,
              page |-> [p EXCEPT
                  !.mem = [copied EXCEPT ![IndexAddr(p.count)] = free_slot],
                  !.last_offset = free_slot,
                  !.count = U32(p.count + 1),
                  !.bbox = update_bounding_box(p.bbox, e.param_id, e.time)]]

\* The cells add_entry(Entry2) stores: the Entry2 object, the length, the data.
Entry2Cells(e) ==
    <<e.param_id, e.time, e.range.address, e.range.length>>
        \o <<e.range.length>> \o e.data

\* PageHeader::add_entry(Entry2 const&): [status, page].
add_entry2(p, e) ==
    LET space_required == e.range.length + SizeofEntry2 + SizeofEntryOffset
        free_slot == p.last_offset - e.range.length - SizeofUint32 - SizeofEntry2
        copied == Memcpy(p.mem, free_slot, Entry2Cells(e))
    IN  IF SizeTGreater(space_required, get_free_space(p))
        THEN [status |-> AKU_WRITE_STATUS_OVERFLOW, page |-> p]
        ELSE [status |-> AKU_WRITE_STATUS_SUCCESS,
              page |-> [p EXCEPT
                  !.mem = [copied EXCEPT ![IndexAddr(p.count)] = free_slot],
                  !.last_offset = free_slot,
                  !.count = U32(p.count + 1),
                  !.bbox = update_bounding_box(p.bbox, e.param_id, e.time)]]

\* ------------------------------------------------------------ reading

\* What a load from outside the cells of the page yields: undefined, so any
\* of these values.
Garbage ==
    [offset : {0}, param_id : Params, time : {MIN_TIMESTAMP, MAX_TIMESTAMP}, length : {0}]

\* A load of one cell; `d` is what the load yields outside the page's cells.
ReadCell(p, a, d) == IF a \in DOMAIN p.mem THEN p.mem[a] ELSE d

\* page_index[i], whatever i is.
PageIndex(p, i, g) == ReadCell(p, IndexAddr(i), g.offset)

\* PageHeader::read_entry(offset): the Entry the cells at `offset` are read as.
read_entry(p, offset, g) ==
    [param_id |-> ReadCell(p, offset, g.param_id),
     time |-> ReadCell(p, offset + 1, g.time),
     length |-> ReadCell(p, offset + 2, g.length)]

\* The entry behind page_index[i].
EntryAtIndex(p, i, g) == read_entry(p, PageIndex(p, i, g), g)

\* The offsets page_index[0..n), as a sequence.
IndexSeq(p, n, g) == [i \in 1..n |-> PageIndex(p, i - 1, g)]

\* ------------------------------------------------------- sort and sync

\* sort()'s comparator: std::tuple<uint64_t, uint32_t>(time.value, param_id),
\* so a negative timestamp compares as a large unsigned one.
SortLess(p, a, b, g) ==
    LET ea == read_entry(p, a, g)
        eb == read_entry(p, b, g)
        ta == ea.time % UINT64_MOD
        tb == eb.time % UINT64_MOD
    IN  ta < tb \/ (ta = tb /\ U32(ea.param_id) < U32(eb.param_id))

\* Insert x into the sorted sequence s behind every element it is not less than.
RECURSIVE InsertSorted(_, _, _, _, _)
InsertSorted(p, s, x, k, g) ==
    IF k > 0 /\ SortLess(p, x, s[k], g)
    THEN InsertSorted(p, s, x, k - 1, g)
    ELSE SubSeq(s, 1, k) \o <<x>> \o SubSeq(s, k + 1, Len(s))

\* Akumuli::insertion_sort(begin, end, less)
RECURSIVE insertion_sort(_, _, _, _)
insertion_sort(p, s, n, g) ==
    IF n = 0 THEN <<>>
    ELSE LET head == insertion_sort(p, s, n - 1, g)
         IN  InsertSorted(p, head, s[n], n - 1, g)

\* PageHeader::sort(): page_index[0..count) reordered in place.
sort(p, g) ==
    LET sorted == insertion_sort(p, IndexSeq(p, p.count, g), p.count, g)
    IN  [p EXCEPT !.mem = Memcpy(p.mem, IndexAddr(0), sorted)]

\* sync_indexes without the clamp of num_offsets.
C22_sync_unclamped(p, offsets, num_offsets) ==
    [p EXCEPT !.mem = Memcpy(p.mem, IndexAddr(p.sync_index), SubSeq(offsets, 1, num_offsets)),
              !.sync_index = U32(p.sync_index + num_offsets)]

\* sync_indexes that marks every entry synchronised, whatever it copied.
C21_sync_marks_all(p, offsets, num_offsets) ==
    LET n == IF p.sync_index + num_offsets > p.count
             THEN U32(p.count - p.sync_index) ELSE num_offsets
    IN  [p EXCEPT !.mem = Memcpy(p.mem, IndexAddr(p.sync_index), SubSeq(offsets, 1, n)),
                  !.sync_index = p.count]

\* PageHeader::sync_indexes(offsets, num_offsets)
sync_indexes(p, offsets, num_offsets) ==
    LET n == IF p.sync_index + num_offsets > p.count
             THEN U32(p.count - p.sync_index) ELSE num_offsets
    IN  [p EXCEPT !.mem = Memcpy(p.mem, IndexAddr(p.sync_index), SubSeq(offsets, 1, n)),
                  !.sync_index = U32(p.sync_index + n)]

\* ------------------------------------------------------------- search

AKU_CURSOR_DIR_FORWARD == "forward"
AKU_CURSOR_DIR_BACKWARD == "backward"
AKU_SEARCH_EBAD_ARG == "SEARCH_EBAD_ARG"
\* end - begin below which the interpolation phase stops, scaled.
AKU_INTERPOLATION_SEARCH_CUTOFF == 2
\* int interpolation_search_quota = 5
InterpolationSearchQuota == 5

\* The calls search makes on its cursor.
Put(offset, index) == [op |-> "put", offset |-> offset, index |-> index]
Complete == [op |-> "complete"]
SetError(code) == [op |-> "set_error", code |-> code]

\* validate_query without the comparison of the bounds.
C13_validate_direction(q) ==
    ~ (q.direction # AKU_CURSOR_DIR_BACKWARD /\ q.direction # AKU_CURSOR_DIR_FORWARD)

\* validate_query
validate_query(q) ==
    ~ (\/ (q.direction # AKU_CURSOR_DIR_BACKWARD /\ q.direction # AKU_CURSOR_DIR_FORWARD)
       \/ q.upperbound < q.lowerbound)

\* int64_t division, which truncates toward zero.
Int64Div(a, b) ==
    IF (a >= 0) = (b > 0) THEN (IF a >= 0 THEN a ELSE 0 - a) \div (IF b > 0 THEN b ELSE 0 - b)
    ELSE 0 - ((IF a >= 0 THEN a ELSE 0 - a) \div (IF b > 0 THEN b ELSE 0 - b))

\* The interpolation phase: the while (interpolation_search_quota--) loop.
\* s holds begin, end, probe_index, the tracked bounds, the index positions
\* dereferenced so far and whether a probe divided by zero.
RECURSIVE Interpolate(_, _, _, _, _)
Interpolate(p, key, s, quota, g) ==
    IF quota = 0 THEN s
    ELSE IF U32(s.end - s.begin) < AKU_INTERPOLATION_SEARCH_CUTOFF THEN s
    ELSE IF s.upper = s.lower THEN [s EXCEPT !.fault = TRUE]
    ELSE
      LET probe_index == U32(Int64Div((key - s.lower) * U32(s.end - s.begin),
                                      s.upper - s.lower))
          probe == EntryAtIndex(p, probe_index, g).time
          s1 == [s EXCEPT !.probe_index = probe_index]
      IN  IF probe_index > s.begin /\ probe_index < s.end
          THEN IF probe < key
               THEN LET begin == U32(probe_index + 1)
                    IN  Interpolate(p, key,
                          [s1 EXCEPT !.begin = begin,
                                     !.lower = EntryAtIndex(p, begin, g).time,
                                     !.reads = @ \cup {probe_index, begin}],
                          quota - 1, g)
               ELSE LET end == U32(probe_index - 1)
                    IN  Interpolate(p, key,
                          [s1 EXCEPT !.end = end,
                                     !.upper = EntryAtIndex(p, end, g).time,
                                     !.reads = @ \cup {probe_index, end}],
                          quota - 1, g)
          ELSE s1

\* The binary search phase: the while (end >= begin) loop.
RECURSIVE BinarySearch(_, _, _, _)
BinarySearch(p, key, s, g) ==
    IF ~ (s.end >= s.begin) THEN s
    ELSE
      LET probe_index == U32(s.begin + (U32(s.end - s.begin) \div 2))
          probe == EntryAtIndex(p, probe_index, g).time
          s1 == [s EXCEPT !.probe_index = probe_index, !.reads = @ \cup {probe_index}]
      IN  IF probe = key THEN s1
          ELSE IF probe < key
          THEN LET begin == U32(probe_index + 1)
               IN  IF begin = p.count THEN [s1 EXCEPT !.begin = begin]
                   ELSE BinarySearch(p, key, [s1 EXCEPT !.begin = begin], g)
          ELSE LET end == U32(probe_index - 1)
               IN  IF end = UINT32_MAX THEN [s1 EXCEPT !.end = end]
                   ELSE BinarySearch(p, key, [s1 EXCEPT !.end = end], g)

\* The scan's filter without its time range.
C1_ScanMatchAnyTime(q, e) == e.param_id = q.param

\* The filter of the scan phase: the entry is emitted iff this holds.
ScanMatch(q, e) ==
    e.param_id = q.param /\ q.lowerbound <= e.time /\ q.upperbound >= e.time

\* The scan phase, is_backward branch, from probe_index on: [calls, reads].
RECURSIVE ScanBackward(_, _, _, _)
ScanBackward(p, q, probe_index, g) ==
    LET current_index == probe_index
        probe_offset == PageIndex(p, current_index, g)
        probe_entry == read_entry(p, probe_offset, g)
        put == IF ScanMatch(q, probe_entry)
               THEN <<Put(probe_offset, current_index)>> ELSE <<>>
    IN  IF probe_entry.time < q.lowerbound \/ current_index = 0
        THEN [calls |-> put \o <<Complete>>, reads |-> {current_index}]
        ELSE LET rest == ScanBackward(p, q, U32(probe_index - 1), g)
             IN  [calls |-> put \o rest.calls, reads |-> {current_index} \cup rest.reads]

\* The scan phase, forward branch, from probe_index on: [calls, reads].
RECURSIVE ScanForward(_, _, _, _, _)
ScanForward(p, q, probe_index, max_index, g) ==
    LET current_index == probe_index
        probe_offset == PageIndex(p, current_index, g)
        probe_entry == read_entry(p, probe_offset, g)
        put == IF ScanMatch(q, probe_entry)
               THEN <<Put(probe_offset, current_index)>> ELSE <<>>
    IN  IF probe_entry.time > q.upperbound \/ current_index = max_index
        THEN [calls |-> put \o <<Complete>>, reads |-> {current_index}]
        ELSE LET rest == ScanForward(p, q, U32(probe_index + 1), max_index, g)
             IN  [calls |-> put \o rest.calls, reads |-> {current_index} \cup rest.reads]

\* SCAN: the label both the shortcut and the binary search arrive at.
Scan(p, q, probe_index, max_index, reads, g) ==
    LET out == IF q.direction = AKU_CURSOR_DIR_BACKWARD
               THEN ScanBackward(p, q, probe_index, g)
               ELSE ScanForward(p, q, probe_index, max_index, g)
    IN  [calls |-> out.calls, reads |-> reads \cup out.reads, fault |-> FALSE]

\* PageHeader::search(caller, cursor, query): the calls made on the cursor, in
\* order, the index positions dereferenced, and whether the interpolation
\* divided by zero (the run then ends there, with no further call).
search(p, q, g) ==
    IF ~ validate_query(q)
    THEN [calls |-> <<SetError(AKU_SEARCH_EBAD_ARG)>>, reads |-> {}, fault |-> FALSE]
    ELSE
      LET is_backward == q.direction = AKU_CURSOR_DIR_BACKWARD
          max_index == U32(p.count - 1)
          key == IF is_backward THEN q.upperbound ELSE q.lowerbound
          s0 == [begin |-> 0, end |-> max_index, probe_index |-> 0,
                 lower |-> p.bbox.min_timestamp, upper |-> p.bbox.max_timestamp,
                 reads |-> {}, fault |-> FALSE]
      IN  IF key <= p.bbox.max_timestamp /\ key >= p.bbox.min_timestamp
          THEN LET s1 == Interpolate(p, key, s0, InterpolationSearchQuota, g)
                   s2 == BinarySearch(p, key, s1, g)
               IN  IF s1.fault
                   THEN [calls |-> <<>>, reads |-> s1.reads, fault |-> TRUE]
                   ELSE Scan(p, q, s2.probe_index, max_index, s2.reads, g)
          ELSE IF key > p.bbox.max_timestamp
          THEN IF is_backward
               THEN Scan(p, q, max_index, max_index, {}, g)
               ELSE [calls |-> <<Complete>>, reads |-> {}, fault |-> FALSE]
          ELSE IF ~ is_backward
               THEN Scan(p, q, 0, max_index, {}, g)
               ELSE [calls |-> <<Complete>>, reads |-> {}, fault |-> FALSE]

\* ------------------------------------------------------ the page, in use

VARIABLES
    page,      \* the PageHeader under test and its cells
    op,        \* the operation that ran last ("idle": one the search model
               \* does not tell apart)
    status,    \* what the last add_entry returned
    nadds,     \* the add_entry calls made so far
    query,     \* the query of the last search
    garbage,   \* what loads outside the page yielded in the last search
    result,    \* the cursor calls and index reads of the last search
    closing,   \* whether the consumer of the last search closed its cursor,
               \* and after how many results put to it
    stored     \* the cells the records appended since construction or the
               \* last reuse() take in the heap, summed

pagevars == <<page, op, status, nadds, query, garbage, result, closing, stored>>

\* Length of the page of the page-level model: free space HeapCells when empty.
PageLength == SizeofHeader + HeapCells + 1

\* The caller's payload bytes.
Payload(n) == [k \in 1..n |-> 40 + k]
\* The address of the caller's payload: some pointer.
PayloadAddress == 48

\* The Entry objects the writers pass, including ones too short to be an Entry.
EntryInputs ==
    { [param_id |-> pr, time |-> t, length |-> SizeofEntry + n, value |-> Payload(n)] :
        pr \in Params, t \in Times, n \in 0..MaxPayload }
    \cup { [param_id |-> pr, time |-> t, length |-> SizeofEntry - 1, value |-> <<>>] :
        pr \in Params, t \in Times }

\* The Entry2 objects the writers pass.
Entry2Inputs ==
    { [param_id |-> pr, time |-> t,
       range |-> [address |-> PayloadAddress, length |-> n], data |-> Payload(n)] :
        pr \in Params, t \in Times, n \in 0..MaxPayload }

NoQuery == [param |-> 0, lowerbound |-> 0, upperbound |-> 0, direction |-> "none"]
NoGarbage == [offset |-> 0, param_id |-> 0, time |-> 0, length |-> 0]
NoResult == [calls |-> <<>>, reads |-> {}, fault |-> FALSE]
\* A consumer that keeps its cursor open.
NoClose == [closes |-> FALSE, after |-> 0]

\* A page as create_page_file constructs it.
InitPage(length) ==
    /\ page = PageHeader("Index", 0, length, 0)
    /\ op = "create"
    /\ status = AKU_WRITE_STATUS_SUCCESS
    /\ nadds = 0
    /\ query = NoQuery
    /\ garbage = NoGarbage
    /\ result = NoResult
    /\ closing = NoClose
    /\ stored = 0

\* The model follows a page while its writes stay inside the cells it models:
\* a record that would be copied over the header is not followed.
InCells(p, size) == p.last_offset - size >= SizeofHeader

\* add_entry(Entry)
AddEntry ==
    \E e \in EntryInputs :
        /\ nadds < MaxAdds
        /\ InCells(page, e.length)
        /\ page' = add_entry(page, e).page
        /\ status' = add_entry(page, e).status
        /\ op' = "add_entry"
        /\ nadds' = nadds + 1
        /\ stored' = IF add_entry(page, e).status = AKU_WRITE_STATUS_SUCCESS
                     THEN stored + e.length ELSE stored
        /\ UNCHANGED <<query, garbage, result, closing>>

\* add_entry(Entry2)
AddEntry2 ==
    \E e \in Entry2Inputs :
        /\ nadds < MaxAdds
        /\ InCells(page, e.range.length + SizeofUint32 + SizeofEntry2)
        /\ page' = add_entry2(page, e).page
        /\ status' = add_entry2(page, e).status
        /\ op' = "add_entry"
        /\ nadds' = nadds + 1
        /\ stored' = IF add_entry2(page, e).status = AKU_WRITE_STATUS_SUCCESS
                     THEN stored + SizeofEntry2 + SizeofUint32 + e.range.length
                     ELSE stored
        /\ UNCHANGED <<query, garbage, result, closing>>

\* reuse()
Reuse ==
    /\ page.open_count < MaxOpen
    /\ page' = reuse(page)
    /\ op' = "reuse"
    /\ stored' = 0
    /\ UNCHANGED <<status, nadds, query, garbage, result, closing>>

\* sort()
Sort ==
    \E g \in Garbage :
        /\ page' = sort(page, g)
        /\ op' = "sort"
        /\ UNCHANGED <<status, nadds, query, garbage, result, closing, stored>>

\* --------------------------------------------------- the page, searched

\* Length of the page of the search model: room for MaxEntries plain entries.
SearchPageLength == SizeofHeader + MaxEntries * (SizeofEntry + SizeofEntryOffset) + 1

\* The queries the readers pass, ill-formed ones included.
Queries ==
    [param : Params, lowerbound : Times, upperbound : Times,
     direction : {AKU_CURSOR_DIR_FORWARD, AKU_CURSOR_DIR_BACKWARD}]
    \cup [param : Params, lowerbound : {MIN_TIMESTAMP}, upperbound : {MIN_TIMESTAMP, MAX_TIMESTAMP},
          direction : {"other"}]

\* The key the staging cache orders offsets by: (timestamp, param_id), signed.
CacheLess(p, a, b) ==
    LET ea == read_entry(p, a, NoGarbage)
        eb == read_entry(p, b, NoGarbage)
    IN  ea.time < eb.time \/ (ea.time = eb.time /\ ea.param_id < eb.param_id)

\* The offsets of `s` in the cache's order (equal keys keep their order).
RECURSIVE CacheOrder(_, _)
CacheOrder(p, s) ==
    IF s = <<>> THEN <<>>
    ELSE LET rest == CacheOrder(p, Tail(s))
             k == Cardinality({i \in 1..Len(rest) : CacheLess(p, rest[i], Head(s))})
         IN  SubSeq(rest, 1, k) \o <<Head(s)>> \o SubSeq(rest, k + 1, Len(rest))

\* What Cache::pick_last hands the worker: the offsets appended since the last
\* sync, in the cache's order.
PickLast(p) ==
    CacheOrder(p, [i \in 1..(p.count - p.sync_index) |->
                       PageIndex(p, p.sync_index + i - 1, NoGarbage)])

\* The worker mirrors the offsets the cache hands it: sync_indexes(buffer, n).
SyncIndexes ==
    /\ page.sync_index < page.count
    /\ page' = sync_indexes(page, PickLast(page), Len(PickLast(page)))
    /\ op' = "sync_indexes"
    /\ UNCHANGED <<status, nadds, query, garbage, result, closing, stored>>

\* Whether the search read anything that is not a cell of the page.
ReadOutside(p, r) ==
    \E i \in r.reads :
        \/ IndexAddr(i) \notin DOMAIN p.mem
        \/ PageIndex(p, i, NoGarbage) \notin DOMAIN p.mem
        \/ PageIndex(p, i, NoGarbage) + 1 \notin DOMAIN p.mem

\* A writer appends a plain entry.
SearchAdd ==
    \E e \in EntryInputs :
        /\ op # "search"
        /\ e.length = SizeofEntry
        /\ page' = add_entry(page, e).page
        /\ status' = add_entry(page, e).status
        /\ op' = "idle"
        /\ stored' = IF add_entry(page, e).status = AKU_WRITE_STATUS_SUCCESS
                     THEN stored + e.length ELSE stored
        /\ UNCHANGED <<nadds, query, garbage, result, closing>>

\* The worker mirrors the cache into the index: run_worker_'s
\* hdr->sync_indexes(buffer.get(), result_size).
SearchSync ==
    /\ op # "search"
    /\ page.sync_index < page.count
    /\ page' = sync_indexes(page, PickLast(page), Len(PickLast(page)))
    /\ op' = "idle"
    /\ UNCHANGED <<status, nadds, query, garbage, result, closing, stored>>

\* A reader runs PageHeader::search.  Loads outside the page's cells yield
\* any of Garbage; a search that makes no such load does not depend on it.
SearchQuery ==
    /\ op # "search"
    /\ \E q \in Queries :
        LET r0 == search(page, q, NoGarbage)
        IN  /\ IF ReadOutside(page, r0)
               THEN \E g \in Garbage : result' = search(page, q, g) /\ garbage' = g
               ELSE result' = r0 /\ garbage' = NoGarbage
            /\ query' = q
            /\ closing' = NoClose
            /\ op' = "search"
            /\ UNCHANGED <<page, status, nadds, stored>>

\* The queries of the readers that close their cursor: the whole time range.
ClosingQueries ==
    {q \in Queries : /\ validate_query(q)
                     /\ q.lowerbound = MIN_TIMESTAMP
                     /\ q.upperbound = MAX_TIMESTAMP}

\* A reader runs PageHeader::search and closes the cursor once `after` results
\* were put: each later put returns false.  search does not use what put
\* returns, so it runs as for any other reader.
SearchClosing ==
    /\ op # "search"
    /\ \E q \in ClosingQueries, after \in 0..(MaxEntries - 1) :
        LET r0 == search(page, q, NoGarbage)
        IN  /\ ~ ReadOutside(page, r0)
            /\ result' = r0
            /\ garbage' = NoGarbage
            /\ query' = q
            /\ closing' = [closes |-> TRUE, after |-> after]
            /\ op' = "search"
            /\ UNCHANGED <<page, status, nadds, stored>>

\* What the k-th call on the cursor, a put, returned.
PutReturned(calls, c, k) ==
    ~ c.closes \/ Cardinality({j \in 1..k : calls[j].op = "put"}) <= c.after

\* The reader is done with the cursor: the record of its search is dropped.
SearchReturn ==
    /\ op = "search"
    /\ op' = "idle"
    /\ query' = NoQuery /\ garbage' = NoGarbage /\ result' = NoResult
    /\ closing' = NoClose
    /\ UNCHANGED <<page, status, nadds, stored>>

\* ------------------------------------------------------------ storage

VARIABLES
    volumes,   \* the page files, volumes_[i] at i + 1: they outlive the process
    storage,   \* the Storage object: active_volume_index_ and active_volume_
               \* (active_page_ is that volume's page), or Down when no process runs
    sop,       \* the Storage operation that ran last, with what it was given
    scursor,   \* the calls Storage::search made on the cursor it was given
    crashed    \* whether a process ever stopped inside advance_volume_

storagevars == <<volumes, storage, sop, scursor, crashed>>

\* Length of a volume's page in the storage model: room for one plain entry.
VolumeLength == SizeofHeader + SizeofEntry + SizeofEntryOffset + 1

\* The entries written in the storage model: one series.
StorageEntries ==
    {e \in EntryInputs : e.length = SizeofEntry /\ e.param_id = 0 /\ e.time \in 0..MaxTs}

Down == [running |-> FALSE, active_volume_index |-> 0, active_volume |-> 0]

\* create_page_file(file_name, page_index): the page of a new volume.
create_page_file(page_index) ==
    LET index_page == PageHeader("Index", 0, VolumeLength, page_index)
    IN  IF page_index = 0 THEN reuse(index_page) ELSE index_page

\* create_page_files, as Storage::new_storage calls it for num_pages volumes.
create_page_files(num_pages) == [i \in 1..num_pages |-> create_page_file(i - 1)]

\* reallocate_disc_space() without the counters carried over.
C9_reallocate_fresh(p) == PageHeader(p.type, 0, p.length, p.page_id)

\* Volume::reallocate_disc_space(): the file is remapped, its contents
\* discarded, and a fresh header constructed that keeps page_id and the counters.
reallocate_disc_space(p) ==
    [PageHeader(p.type, 0, p.length, p.page_id) EXCEPT
        !.open_count = p.open_count, !.close_count = p.close_count]

\* Volume::open()
VolumeOpen(p) == reuse(p)

\* Volume::close()
VolumeClose(p) == close(p)

\* The loop with `>` for `>=`: ties go to the lowest index.
RECURSIVE C19_SelectLoopFirst(_, _, _, _)
C19_SelectLoopFirst(vols, i, max_index, max_overwrites) ==
    IF i >= Len(vols) THEN max_index
    ELSE IF vols[i + 1].open_count > max_overwrites
         THEN C19_SelectLoopFirst(vols, i + 1, i, vols[i + 1].open_count)
         ELSE C19_SelectLoopFirst(vols, i + 1, max_index, max_overwrites)

\* The loop of select_active_page over volumes_[i..]: the index it ends with.
RECURSIVE SelectLoop(_, _, _, _)
SelectLoop(vols, i, max_index, max_overwrites) ==
    IF i >= Len(vols) THEN max_index
    ELSE IF vols[i + 1].open_count >= max_overwrites
         THEN SelectLoop(vols, i + 1, i, vols[i + 1].open_count)
         ELSE SelectLoop(vols, i + 1, max_index, max_overwrites)

\* advance_volume_ without the comparison of local_rev: every call rotates.
C20_advance_unconditional(vols, st, local_rev) ==
    LET closed == [vols EXCEPT ![st.active_volume + 1] = close(@)]
        index == st.active_volume_index + 1
        next == index % Len(vols)
    IN  [volumes |-> [closed EXCEPT ![next + 1] = reuse(reallocate_disc_space(@))],
         storage |-> [st EXCEPT !.active_volume_index = index,
                                !.active_volume = next]]

\* Storage::advance_volume_(local_rev) on the files `vols` and the object `st`:
\* [volumes, storage].
advance_volume_(vols, st, local_rev) ==
    IF local_rev = st.active_volume_index
    THEN LET closed == [vols EXCEPT ![st.active_volume + 1] = VolumeClose(@)]
             index == st.active_volume_index + 1
             next == index % Len(vols)
         IN  [volumes |-> [closed EXCEPT
                              ![next + 1] = VolumeOpen(reallocate_disc_space(@))],
              storage |-> [st EXCEPT !.active_volume_index = index,
                                     !.active_volume = next]]
    ELSE [volumes |-> vols, storage |-> st]

\* Storage::select_active_page(): [volumes, storage].
select_active_page(vols) ==
    LET max_index == SelectLoop(vols, 0, 0 - 1, 0 - 1)
        st == [running |-> TRUE, active_volume_index |-> max_index,
               active_volume |-> max_index]
        active_page == vols[max_index + 1]
    IN  IF active_page.close_count = active_page.open_count
        THEN advance_volume_(vols, st, st.active_volume_index)
        ELSE [volumes |-> vols, storage |-> st]

\* The model follows the volumes while their counters are below the cap.
WithinEpochs(vols) ==
    \A i \in 1..Len(vols) :
        vols[i].open_count < MaxEpoch /\ vols[i].close_count < MaxEpoch

\* Storage::new_storage has created the volumes; no process runs yet.
InitStorage ==
    /\ \E n \in 1..MaxVolumes : volumes = create_page_files(n)
    /\ storage = Down
    /\ sop = [name |-> "new_storage"]
    /\ scursor = <<>>
    /\ crashed = FALSE

\* Storage::Storage(conf): the volumes are mapped and select_active_page runs.
StorageOpen ==
    /\ ~ storage.running
    /\ WithinEpochs(volumes)
    /\ volumes' = select_active_page(volumes).volumes
    /\ storage' = select_active_page(volumes).storage
    /\ sop' = [name |-> "open"]
    /\ UNCHANGED <<scursor, crashed>>

\* Storage::write(entry), the append of _write_impl: into active_page_.
StorageWrite ==
    \E e \in StorageEntries :
        /\ storage.running
        /\ volumes' = [volumes EXCEPT
               ![storage.active_volume + 1] = add_entry(@, e).page]
        /\ sop' = [name |-> "write",
                   status |-> add_entry(volumes[storage.active_volume + 1], e).status]
        /\ UNCHANGED <<storage, scursor, crashed>>

\* advance_volume_(local_rev), as a writer calls it with the revision it
\* captured: the current one, or one that went stale meanwhile.
AdvanceVolume ==
    \E local_rev \in {storage.active_volume_index, storage.active_volume_index - 1} :
        /\ storage.running
        /\ WithinEpochs(volumes)
        /\ volumes' = advance_volume_(volumes, storage, local_rev).volumes
        /\ storage' = advance_volume_(volumes, storage, local_rev).storage
        /\ sop' = [name |-> "advance_volume",
                   switched |-> local_rev = storage.active_volume_index]
        /\ UNCHANGED <<scursor, crashed>>

\* The process stops inside advance_volume_, after active_volume_->close()
\* and before the next volume is opened; with `remapped`, after
\* reallocate_disc_space() of the next volume.  The files keep what was done.
AdvanceInterrupted ==
    \E remapped \in BOOLEAN :
        LET closed == [volumes EXCEPT ![storage.active_volume + 1] = VolumeClose(@)]
            next == (storage.active_volume_index + 1) % Len(volumes)
        IN  /\ storage.running
            /\ WithinEpochs(volumes)
            /\ volumes' = IF remapped
                          THEN [closed EXCEPT ![next + 1] = reallocate_disc_space(@)]
                          ELSE closed
            /\ storage' = Down
            /\ sop' = [name |-> "interrupted"]
            /\ crashed' = TRUE
            /\ UNCHANGED scursor

\* The process stops between operations.
StorageStop ==
    /\ storage.running
    /\ storage' = Down
    /\ sop' = [name |-> "stop", target |-> storage.active_volume]
    /\ UNCHANGED <<volumes, scursor, crashed>>

\* Storage::search(cursor): its body is empty.
StorageSearch ==
    /\ storage.running
    /\ scursor' = <<>>
    /\ sop' = [name |-> "search"]
    /\ UNCHANGED <<volumes, storage, crashed>>

\* ------------------------------------------------------------- cursor
\* CoroCursor: a producer coroutine and a consumer in strict alternation.
\* The producer puts the results 1, 2, ... in this order and then ends with
\* complete or set_error; it runs only while a consumer call has resumed it.

VARIABLES
    cursor,     \* the CoroCursor's fields
    producer,   \* the producer coroutine: what it still has to put and where
                \* it is suspended
    putlog,     \* every put call that returned: the result and the value returned
    delivered,  \* the results the consumer's read calls have returned, in order
    chistory,   \* what the consumer did: reads made, and the lengths of putlog
                \* and of the buffer contents when it called close
    fanin       \* a FanInCursorCombinator: its direction, what its input cursors
                \* were given, how far each was read, and its output so far

cursorvars == <<cursor, producer, putlog, delivered, chistory, fanin>>

NewCoroCursor ==
    [usr_buffer |-> <<>>, usr_buffer_len |-> 0, write_index |-> 0,
     error |-> FALSE, error_code |-> 0, complete |-> FALSE, closed |-> FALSE]

\* A put that never looks at closed_.
C10_put_never_refused(cur) == FALSE

\* CoroCursor::put refuses the result once the consumer has closed the cursor.
put_refused(cur) == cur.closed

\* CoroCursor::put has no room and gives control back to the consumer.
put_yields(cur) == cur.write_index = cur.usr_buffer_len

\* CoroCursor::put stores the result at write_index_.
put_store(cur, item) ==
    [cur EXCEPT !.usr_buffer = SubSeq(@, 1, cur.write_index) \o <<item>>,
                !.write_index = @ + 1]

\* CoroCursor::complete / CoroCursor::set_error
finish(cur, ending) ==
    IF ending = "complete"
    THEN [cur EXCEPT !.complete = TRUE]
    ELSE [cur EXCEPT !.error = TRUE, !.error_code = AKU_SEARCH_EBAD_ARG,
                     !.complete = TRUE]

\* The coroutine runs from where it is until it gives control back:
\* c = [cursor, producer, putlog].
RECURSIVE Resume(_)
Resume(c) ==
    LET cur == c.cursor
        prod == c.producer
    IN  IF prod.pc = "done" THEN c
        ELSE IF prod.todo = <<>>
        THEN [c EXCEPT !.cursor = finish(cur, prod.ending), !.producer.pc = "done"]
        ELSE LET item == Head(prod.todo)
             IN  IF put_refused(cur)
                 THEN LET logged == [c EXCEPT !.putlog =
                                        Append(@, [item |-> item, ret |-> FALSE])]
                      IN  IF prod.heedful
                          THEN [logged EXCEPT !.producer.pc = "done"]
                          ELSE Resume([logged EXCEPT !.producer.todo = Tail(@),
                                                     !.producer.pc = "running"])
                 ELSE IF prod.pc # "in_put" /\ put_yields(cur)
                 THEN [c EXCEPT !.producer.pc = "in_put"]
                 ELSE Resume([c EXCEPT
                         !.cursor = put_store(cur, item),
                         !.putlog = Append(@, [item |-> item, ret |-> TRUE]),
                         !.producer.todo = Tail(@),
                         !.producer.pc = "running"])

\* CoroCursor::read(buf, buf_len): [cursor, producer, putlog] when it returns.
read(cur, prod, log, buf_len) ==
    Resume([cursor |-> [cur EXCEPT !.usr_buffer = <<>>,
                                   !.usr_buffer_len = buf_len,
                                   !.write_index = 0],
            producer |-> prod, putlog |-> log])

\* CoroCursor::close(): [cursor, producer, putlog] when it returns.
close_cursor(cur, prod, log) ==
    Resume([cursor |-> [cur EXCEPT !.closed = TRUE],
            producer |-> prod, putlog |-> log])

\* No fan-in merger was constructed.
NoFanIn == [direction |-> "none", inputs |-> <<>>, taken |-> <<>>, out |-> <<>>]

\* CoroCursor::start(fn): the coroutine is created and has not run.
InitCursor ==
    /\ fanin = NoFanIn
    /\ cursor = NewCoroCursor
    /\ \E n \in 0..MaxItems, heedful \in BOOLEAN, ending \in {"complete", "error"} :
           producer = [items |-> [k \in 1..n |-> k], todo |-> [k \in 1..n |-> k],
                       pc |-> "start", heedful |-> heedful, ending |-> ending]
    /\ putlog = <<>>
    /\ delivered = <<>>
    /\ chistory = [reads |-> 0, closed_at |-> 0, seen_at_close |-> <<>>]

\* The consumer calls read with a buffer of buf_len results.
CursorRead ==
    \E buf_len \in 1..MaxBuf :
        LET r == read(cursor, producer, putlog, buf_len)
        IN  /\ ~ cursor.closed
            /\ ~ cursor.complete
            /\ cursor' = r.cursor
            /\ producer' = r.producer
            /\ putlog' = r.putlog
            /\ delivered' = delivered \o SubSeq(r.cursor.usr_buffer, 1, r.cursor.write_index)
            /\ chistory' = [chistory EXCEPT !.reads = @ + 1]
            /\ UNCHANGED fanin

\* The consumer calls close.
CursorClose ==
    LET r == close_cursor(cursor, producer, putlog)
    IN  /\ ~ cursor.closed
        /\ cursor' = r.cursor
        /\ producer' = r.producer
        /\ putlog' = r.putlog
        /\ chistory' = [chistory EXCEPT !.closed_at = Len(putlog),
                                        !.seen_at_close = cursor.usr_buffer]
        /\ UNCHANGED <<delivered, fanin>>

\* ------------------------------------------------------------ fan-in
\* FanInCursorCombinator: N input cursors, each ordered in the merger's
\* direction, merged through a heap of (head, source) pairs.

\* The results an input cursor can hold: (timestamp, param_id) keys.
FanInKeys == [time : 0..MaxTs, param_id : Params]

\* (timestamp, param_id) of a comes strictly before that of b in `direction`.
KeyBefore(direction, a, b) ==
    IF direction = AKU_CURSOR_DIR_FORWARD
    THEN a.time < b.time \/ (a.time = b.time /\ a.param_id < b.param_id)
    ELSE a.time > b.time \/ (a.time = b.time /\ a.param_id > b.param_id)

\* A cursor's results are ordered in `direction`.
OrderedRun(direction, run) ==
    \A i, j \in 1..Len(run) : i < j => ~ KeyBefore(direction, run[j], run[i])

\* The sources the heap holds: those with a result not yet taken.
HeapSources(f) == {s \in 1..Len(f.inputs) : f.taken[s] < Len(f.inputs[s])}

\* The head of source s.
Head_(f, s) == f.inputs[s][f.taken[s] + 1]

\* The heap ordering with ties between sources going to the later source.
C11_HeapLessLaterSource(f, s, t) ==
    \/ KeyBefore(f.direction, Head_(f, s), Head_(f, t))
    \/ (~ KeyBefore(f.direction, Head_(f, t), Head_(f, s)) /\ s > t)

\* The heap's ordering of (head, source) pairs: by key, then by source.
HeapLess(f, s, t) ==
    \/ KeyBefore(f.direction, Head_(f, s), Head_(f, t))
    \/ (~ KeyBefore(f.direction, Head_(f, t), Head_(f, s)) /\ s < t)

\* The source at the top of the heap.
HeapTop(f) == CHOOSE s \in HeapSources(f) : \A t \in HeapSources(f) \ {s} : HeapLess(f, s, t)

\* One step of the merge: pop the top, append its result, advance its source.
fanin_step(f) ==
    LET s == HeapTop(f)
    IN  [f EXCEPT !.out = Append(@, [key |-> Head_(f, s), source |-> s,
                                     position |-> f.taken[s] + 1]),
                  !.taken[s] = @ + 1]

\* FanInCursorCombinator(in_cursors, size, direction)
InitFanIn ==
    \E direction \in {AKU_CURSOR_DIR_FORWARD, AKU_CURSOR_DIR_BACKWARD},
       n \in 1..MaxSources :
        \E inputs \in [1..n -> UNION {[1..k -> FanInKeys] : k \in 0..MaxRun}] :
            /\ \A s \in 1..n : OrderedRun(direction, inputs[s])
            /\ fanin = [direction |-> direction, inputs |-> inputs,
                        taken |-> [s \in 1..n |-> 0], out |-> <<>>]

\* The merger moves one result to its output.
FanInStep ==
    /\ HeapSources(fanin) # {}
    /\ fanin' = fanin_step(fanin)
    /\ UNCHANGED <<cursor, producer, putlog, delivered, chistory>>

\* ----------------------------------------------- sync against appends

MaxSyncBuf == 2

VARIABLES
    syncin,    \* what the last sync_indexes call was given: the buffer and n
    alt        \* the page the same two calls yield when made in the other order

syncvars == <<syncin, alt>>

NoSync == [offsets |-> <<>>, n |-> 0]

\* What the worker's buffer can hold: the offsets of records of the page, and
\* the one a record about to be appended will get.
BufferOffsets(p) ==
    {PageIndex(p, i, NoGarbage) : i \in 0..(p.count - 1)} \cup {p.last_offset - SizeofEntry}

SyncBuffers(p) == [1..MaxSyncBuf -> BufferOffsets(p)]

\* The entries the writer of this page passes.
SyncEntries == {e \in EntryInputs : e.param_id = 0 /\ e.time \in 0..MaxTs}

IdleSync ==
    /\ syncin = NoSync
    /\ alt = PageHeader("Index", 0, PageLength, 0)

\* A writer appends a plain entry.
SyncAdd ==
    \E e \in SyncEntries :
        /\ nadds < MaxAdds
        /\ InCells(page, e.length)
        /\ page' = add_entry(page, e).page
        /\ status' = add_entry(page, e).status
        /\ op' = "add_entry"
        /\ nadds' = nadds + 1
        /\ stored' = IF add_entry(page, e).status = AKU_WRITE_STATUS_SUCCESS
                     THEN stored + e.length ELSE stored
        /\ alt' = page'
        /\ UNCHANGED <<query, garbage, result, closing, syncin>>

\* sync_indexes(offsets, n) with any buffer and any n up to its size.
SyncOffsets ==
    \E offsets \in SyncBuffers(page), n \in 0..MaxSyncBuf :
        /\ page' = sync_indexes(page, offsets, n)
        /\ op' = "sync_indexes"
        /\ syncin' = [offsets |-> offsets, n |-> n]
        /\ alt' = page'
        /\ UNCHANGED <<status, nadds, query, garbage, result, closing, stored>>

\* An append and a sync meet: `page` takes the append first, `alt` the sync.
SyncMeetsAdd ==
    \E e \in SyncEntries, offsets \in SyncBuffers(page), n \in 0..MaxSyncBuf :
        /\ nadds < MaxAdds
        /\ InCells(page, e.length)
        /\ page' = sync_indexes(add_entry(page, e).page, offsets, n)
        /\ alt' = add_entry(sync_indexes(page, offsets, n), e).page
        /\ status' = add_entry(page, e).status
        /\ op' = "add_entry+sync_indexes"
        /\ nadds' = nadds + 1
        /\ stored' = IF add_entry(page, e).status = AKU_WRITE_STATUS_SUCCESS
                     THEN stored + e.length ELSE stored
        /\ syncin' = [offsets |-> offsets, n |-> n]
        /\ UNCHANGED <<query, garbage, result, closing>>

\* ------------------------------------------------- background worker

MaxPush == 3
MaxNotify == 2

VARIABLES
    outgoing,     \* outgoing_: the volumes (by index) awaiting a drain
    wpc,          \* where run_worker_ stands: "start" before it took mutex_,
                  \* "wait" at the predicate of the wait, "blocked" inside the
                  \* wait with mutex_ released, "drain" at outgoing_.front(),
                  \* "check_stop" at if (stop_worker_), "done" once returned
    stop_worker,  \* stop_worker_
    cache,        \* how pick_last answers: "ok", "failing" or "flaky"
    wop,          \* the step the worker or a notifier took last
    pushed,       \* every item pushed on outgoing_, in order
    synclog       \* the volumes sync_indexes was called on, in order

workervars == <<outgoing, wpc, stop_worker, cache, wop, pushed, synclog>>

NoWorkerOp == [name |-> "none"]

IdleWorker ==
    /\ outgoing = <<>>
    /\ wpc = "start"
    /\ stop_worker = FALSE
    /\ cache = "ok"
    /\ wop = NoWorkerOp
    /\ pushed = <<>>
    /\ synclog = <<>>

\* Storage::Storage: the worker thread is created, stop_worker_ is false, the
\* volumes are mapped.
InitWorker ==
    /\ volumes = create_page_files(MaxVolumes)
    /\ storage = [running |-> TRUE, active_volume_index |-> 0, active_volume |-> 0]
    /\ sop = [name |-> "open"]
    /\ scursor = <<>>
    /\ crashed = FALSE
    /\ outgoing = <<>>
    /\ wpc = "start"
    /\ stop_worker = FALSE
    /\ cache \in {"ok", "failing", "flaky"}
    /\ wop = NoWorkerOp
    /\ pushed = <<>>
    /\ synclog = <<>>

\* mutex_ is held by the worker from its first line on, except inside the wait.
WorkerHoldsMutex == wpc \in {"wait", "drain", "check_stop"}

\* outgoing_.push(volume), ntimes: items join at the back.
C24_push_front(q, ntimes, v) == [i \in 1..ntimes |-> v] \o q
notify_push(q, ntimes, v) == q \o [i \in 1..ntimes |-> v]

\* What one pass of the loop body does to the queue: pop on success only.
C23_pop_always(q, ok) == Tail(q)
drain_queue(q, ok) == IF ok THEN Tail(q) ELSE q

\* A writer appends to a volume's page; the cache stages the offset.
WorkerAppend ==
    \E v \in 1..Len(volumes), e \in StorageEntries :
        /\ add_entry(volumes[v], e).status = AKU_WRITE_STATUS_SUCCESS
        /\ volumes' = [volumes EXCEPT ![v] = add_entry(@, e).page]
        /\ wop' = [name |-> "append"]
        /\ UNCHANGED <<storage, sop, scursor, crashed, outgoing, wpc, stop_worker,
                       cache, pushed, synclog>>

\* Storage::notify_worker_(ntimes, volume): lock, push ntimes, unlock, notify_one.
NotifyWorker ==
    \E v \in 1..Len(volumes), ntimes \in 1..MaxNotify :
        /\ ~ WorkerHoldsMutex
        /\ Len(pushed) + ntimes <= MaxPush
        /\ outgoing' = notify_push(outgoing, ntimes, v)
        /\ pushed' = pushed \o [i \in 1..ntimes |-> v]
        /\ wop' = [name |-> "notify"]
        /\ UNCHANGED <<storagevars, wpc, stop_worker, cache, synclog>>

\* run_worker_: std::unique_lock<std::mutex> lock(mutex_).
WorkerStart ==
    /\ wpc = "start"
    /\ wpc' = "wait"
    /\ wop' = [name |-> "lock"]
    /\ UNCHANGED <<storagevars, outgoing, stop_worker, cache, pushed, synclog>>

\* worker_condition_.wait(lock, pred): with the predicate true the wait
\* returns at once, the mutex still held; otherwise the worker blocks.
WorkerWait ==
    /\ wpc = "wait"
    /\ wpc' = IF outgoing # <<>> THEN "drain" ELSE "blocked"
    /\ wop' = [name |-> "wait"]
    /\ UNCHANGED <<storagevars, outgoing, stop_worker, cache, pushed, synclog>>

\* The blocked worker wakes (notified or spuriously), retakes mutex_ and
\* evaluates the predicate again.
WorkerWake ==
    /\ wpc = "blocked"
    /\ wpc' = "wait"
    /\ wop' = [name |-> "wake"]
    /\ UNCHANGED <<storagevars, outgoing, stop_worker, cache, pushed, synclog>>

\* The loop body up to the stop check: front(), pick_last, and on success
\* sync_indexes and pop.
WorkerDrain ==
    \E ok \in BOOLEAN :
        LET v == Head(outgoing)
            buffer == PickLast(volumes[v])
        IN  /\ wpc = "drain"
            /\ cache = "ok" => ok
            /\ cache = "failing" => ~ ok
            /\ volumes' = IF ok
                          THEN [volumes EXCEPT ![v] = sync_indexes(@, buffer, Len(buffer))]
                          ELSE volumes
            /\ outgoing' = drain_queue(outgoing, ok)
            /\ synclog' = IF ok THEN Append(synclog, v) ELSE synclog
            /\ wop' = [name |-> "drain", ok |-> ok, volume |-> v]
            /\ wpc' = "check_stop"
            /\ UNCHANGED <<storage, sop, scursor, crashed, stop_worker, cache, pushed>>

\* if (stop_worker_) return; else the next iteration.
WorkerCheckStop ==
    /\ wpc = "check_stop"
    /\ wpc' = IF stop_worker THEN "done" ELSE "wait"
    /\ wop' = [name |-> "check_stop"]
    /\ UNCHANGED <<storagevars, outgoing, stop_worker, cache, pushed, synclog>>

\* Some thread sets stop_worker_.
StopWorker ==
    /\ ~ stop_worker
    /\ stop_worker' = TRUE
    /\ wop' = [name |-> "stop"]
    /\ UNCHANGED <<storagevars, outgoing, wpc, cache, pushed, synclog>>

WorkerSteps == WorkerStart \/ WorkerWait \/ WorkerWake \/ WorkerDrain \/ WorkerCheckStop

\* --------------------------------------- add_entry against a reader

VARIABLES
    inflight,   \* the add_entry call that runs: the page it leads to and the
                \* stores of it that are not yet visible to other threads
    appended    \* the records appended so far: offset and cells, in order

racevars == <<inflight, appended>>

\* The stores of add_entry: the memcpy of the record, last_offset,
\* page_index[count], count++ and the bounding box.
AddStores == {"record", "last_offset", "slot", "count", "bbox"}

NoInflight == [target |-> PageHeader("Index", 0, PageLength, 0), from |-> 0, pending |-> {}]

IdleRace ==
    /\ inflight = NoInflight
    /\ appended = <<>>

\* The page once store `x` of the call that leads to `t` is visible; the
\* record of that call takes the cells [t.last_offset, from).
ApplyStore(p, t, from, x) ==
    CASE x = "record" ->
            [p EXCEPT !.mem = [a \in DOMAIN p.mem |->
                IF a >= t.last_offset /\ a < from THEN t.mem[a] ELSE p.mem[a]]]
      [] x = "last_offset" -> [p EXCEPT !.last_offset = t.last_offset]
      [] x = "slot" -> [p EXCEPT !.mem[IndexAddr(t.count - 1)] = t.mem[IndexAddr(t.count - 1)]]
      [] x = "count" -> [p EXCEPT !.count = t.count]
      [] x = "bbox" -> [p EXCEPT !.bbox = t.bbox]

\* The stores are plain ones to memory a reader loads from without any
\* synchronisation: a data race, so they become visible in any order.
may_become_visible(pending, x) == x \in pending

\* A writer enters add_entry(Entry) and passes its checks.  The model follows
\* the calls whose record stays clear of the index slot they write.
RaceAdd ==
    \E e \in SyncEntries :
        /\ inflight.pending = {}
        /\ nadds < MaxAdds
        /\ add_entry(page, e).status = AKU_WRITE_STATUS_SUCCESS
        /\ page.last_offset - e.length >= IndexAddr(page.count + 1)
        /\ inflight' = [target |-> add_entry(page, e).page, from |-> page.last_offset,
                        pending |-> AddStores]
        /\ appended' = Append(appended,
               [offset |-> page.last_offset - e.length,
                cells |-> SubSeq(EntryCells(e), 1, e.length)])
        /\ status' = AKU_WRITE_STATUS_SUCCESS
        /\ op' = "add_entry"
        /\ nadds' = nadds + 1
        /\ stored' = stored + e.length
        /\ UNCHANGED <<page, query, garbage, result, closing>>

\* A writer enters add_entry(Entry2) and passes its check.
RaceAdd2 ==
    \E e \in Entry2Inputs :
        /\ inflight.pending = {}
        /\ nadds < MaxAdds
        /\ e.param_id = 0 /\ e.time \in 0..MaxTs
        /\ add_entry2(page, e).status = AKU_WRITE_STATUS_SUCCESS
        /\ add_entry2(page, e).page.last_offset >= IndexAddr(page.count + 1)
        /\ inflight' = [target |-> add_entry2(page, e).page, from |-> page.last_offset,
                        pending |-> AddStores]
        /\ appended' = Append(appended,
               [offset |-> add_entry2(page, e).page.last_offset,
                cells |-> Entry2Cells(e)])
        /\ status' = AKU_WRITE_STATUS_SUCCESS
        /\ op' = "add_entry"
        /\ nadds' = nadds + 1
        /\ stored' = stored + SizeofEntry2 + SizeofUint32 + e.range.length
        /\ UNCHANGED <<page, query, garbage, result, closing>>

\* One store of the running add_entry becomes visible.
RaceStore ==
    \E x \in AddStores :
        /\ may_become_visible(inflight.pending, x)
        /\ page' = ApplyStore(page, inflight.target, inflight.from, x)
        /\ inflight' = [inflight EXCEPT !.pending = @ \ {x}]
        /\ op' = "store"
        /\ UNCHANGED <<status, nadds, query, garbage, result, closing, stored, appended>>

\* --------------------------------------------- writers and rotation

MaxWriters == 2

VARIABLES
    writers,   \* each writer inside Storage::write: where it stands ("idle"
               \* outside, "captured" with its rev loaded, "overflow" once its
               \* append returned OVERFLOW, "closed" inside advance_volume_
               \* after close(), "bumped" after active_volume_index_++), the
               \* rev it captured and the volume it appended into
    closes     \* the close() calls advance_volume_ made: the volume closed and
               \* whether that volume is the one whose page reported OVERFLOW
               \* to the caller

writervars == <<writers, closes>>

Writers == 1..MaxWriters

IdleWriter == [pc |-> "idle", rev |-> 0, tried |-> 0]

IdleWriters ==
    /\ writers = [w \in Writers |-> IdleWriter]
    /\ closes = <<>>

\* new_storage and Storage::Storage have run: the volumes exist and the first
\* is active.
InitWriters ==
    /\ volumes = select_active_page(create_page_files(MaxVolumes)).volumes
    /\ storage = select_active_page(create_page_files(MaxVolumes)).storage
    /\ sop = [name |-> "open"]
    /\ scursor = <<>>
    /\ crashed = FALSE
    /\ IdleWriters

\* mutex_ is held by the writer that is inside the if of advance_volume_.
RingMutexFree == \A w \in Writers : writers[w].pc \notin {"closed", "bumped"}

\* advance_volume_'s test, made under the mutex.
rev_current(local_rev, index) == local_rev = index

\* write: local_rev = active_volume_index_.load().
WriterCapture ==
    \E w \in Writers :
        /\ writers[w].pc = "idle"
        /\ writers' = [writers EXCEPT ![w] = [pc |-> "captured",
                                             rev |-> storage.active_volume_index,
                                             tried |-> 0]]
        /\ sop' = [name |-> "capture"]
        /\ UNCHANGED <<volumes, storage, scursor, crashed, closes>>

\* write: active_page_->add_entry(entry), on the page that is the active one
\* at this moment.
WriterAppend ==
    \E w \in Writers, e \in StorageEntries :
        LET v == storage.active_volume + 1
            r == add_entry(volumes[v], e)
        IN  /\ writers[w].pc = "captured"
            /\ volumes' = [volumes EXCEPT ![v] = r.page]
            /\ writers' = [writers EXCEPT ![w] =
                   IF r.status = AKU_WRITE_STATUS_OVERFLOW
                   THEN [@ EXCEPT !.pc = "overflow", !.tried = v]
                   ELSE IdleWriter]
            /\ sop' = [name |-> "write", status |-> r.status]
            /\ UNCHANGED <<storage, scursor, crashed, closes>>

\* advance_volume_(local_rev): the lock is taken and the rev compared; when it
\* is the current one, active_volume_->close().
WriterAdvance ==
    \E w \in Writers :
        /\ writers[w].pc = "overflow"
        /\ RingMutexFree
        /\ WithinEpochs(volumes)
        /\ IF rev_current(writers[w].rev, storage.active_volume_index)
           THEN /\ volumes' = [volumes EXCEPT ![storage.active_volume + 1] = VolumeClose(@)]
                /\ closes' = Append(closes,
                       [volume |-> storage.active_volume + 1,
                        reported |-> writers[w].tried = storage.active_volume + 1])
                /\ writers' = [writers EXCEPT ![w].pc = "closed"]
                /\ sop' = [name |-> "advance_volume", switched |-> TRUE]
           ELSE /\ writers' = [writers EXCEPT ![w] = IdleWriter]
                /\ sop' = [name |-> "advance_volume", switched |-> FALSE]
                /\ UNCHANGED <<volumes, closes>>
        /\ UNCHANGED <<storage, scursor, crashed>>

\* advance_volume_: active_volume_index_++.
WriterBump ==
    \E w \in Writers :
        /\ writers[w].pc = "closed"
        /\ storage' = [storage EXCEPT !.active_volume_index = @ + 1]
        /\ writers' = [writers EXCEPT ![w].pc = "bumped"]
        /\ sop' = [name |-> "bump"]
        /\ UNCHANGED <<volumes, scursor, crashed, closes>>

\* advance_volume_: active_volume_ and active_page_ are switched to the next
\* volume, which is reallocated and opened; the lock is released.
WriterSwitch ==
    \E w \in Writers :
        LET next == storage.active_volume_index % Len(volumes)
        IN  /\ writers[w].pc = "bumped"
            /\ volumes' = [volumes EXCEPT ![next + 1] = VolumeOpen(reallocate_disc_space(@))]
            /\ storage' = [storage EXCEPT !.active_volume = next]
            /\ writers' = [writers EXCEPT ![w] = IdleWriter]
            /\ sop' = [name |-> "switch"]
            /\ UNCHANGED <<scursor, crashed, closes>>

\* --------------------------------------------------- variables at rest

extvars == <<syncvars, workervars, racevars, writervars>>

IdleExt == IdleSync /\ IdleWorker /\ IdleRace /\ IdleWriters

\* ------------------------------------------------------ specifications

vars == <<pagevars, storagevars, cursorvars, extvars>>

\* A subsystem a specification does not exercise stays as constructed.
IdleStorage ==
    /\ volumes = create_page_files(1)
    /\ storage = Down
    /\ sop = [name |-> "new_storage"]
    /\ scursor = <<>>
    /\ crashed = FALSE

IdleCoro ==
    /\ cursor = NewCoroCursor
    /\ producer = [items |-> <<>>, todo |-> <<>>, pc |-> "start",
                   heedful |-> TRUE, ending |-> "complete"]
    /\ putlog = <<>>
    /\ delivered = <<>>
    /\ chistory = [reads |-> 0, closed_at |-> 0, seen_at_close |-> <<>>]

IdleCursor == IdleCoro /\ fanin = NoFanIn

\* One page: appends of both kinds, reuse and sort.
Init == InitPage(PageLength) /\ IdleStorage /\ IdleCursor /\ IdleExt

Next ==
    \/ AddEntry /\ UNCHANGED <<storagevars, cursorvars, extvars>>
    \/ AddEntry2 /\ UNCHANGED <<storagevars, cursorvars, extvars>>
    \/ Reuse /\ UNCHANGED <<storagevars, cursorvars, extvars>>
    \/ Sort /\ UNCHANGED <<storagevars, cursorvars, extvars>>
    \/ SyncIndexes /\ UNCHANGED <<storagevars, cursorvars, extvars>>

Spec == Init /\ [][Next]_vars

\* One page: appends, index synchronisation and searches.
InitSearch == InitPage(SearchPageLength) /\ IdleStorage /\ IdleCursor /\ IdleExt

NextSearch ==
    \/ SearchAdd /\ UNCHANGED <<storagevars, cursorvars, extvars>>
    \/ SearchSync /\ UNCHANGED <<storagevars, cursorvars, extvars>>
    \/ SearchQuery /\ UNCHANGED <<storagevars, cursorvars, extvars>>
    \/ SearchClosing /\ UNCHANGED <<storagevars, cursorvars, extvars>>
    \/ SearchReturn /\ UNCHANGED <<storagevars, cursorvars, extvars>>

SpecSearch == InitSearch /\ [][NextSearch]_vars

\* The ring of volumes across process runs.
InitVolumes == InitPage(PageLength) /\ InitStorage /\ IdleCursor /\ IdleExt

NextVolumes ==
    \/ StorageOpen /\ UNCHANGED <<pagevars, cursorvars, extvars>>
    \/ StorageWrite /\ UNCHANGED <<pagevars, cursorvars, extvars>>
    \/ AdvanceVolume /\ UNCHANGED <<pagevars, cursorvars, extvars>>
    \/ AdvanceInterrupted /\ UNCHANGED <<pagevars, cursorvars, extvars>>
    \/ StorageStop /\ UNCHANGED <<pagevars, cursorvars, extvars>>
    \/ StorageSearch /\ UNCHANGED <<pagevars, cursorvars, extvars>>

SpecStorage == InitVolumes /\ [][NextVolumes]_vars

\* One cursor between its producer and its consumer.
InitCoro == InitPage(PageLength) /\ IdleStorage /\ InitCursor /\ IdleExt

NextCoro ==
    \/ CursorRead /\ UNCHANGED <<pagevars, storagevars, extvars>>
    \/ CursorClose /\ UNCHANGED <<pagevars, storagevars, extvars>>

SpecCursor == InitCoro /\ [][NextCoro]_vars

\* One fan-in merger over its input cursors.
InitMerge == InitPage(PageLength) /\ IdleStorage /\ IdleCoro /\ InitFanIn /\ IdleExt

NextMerge ==
    \/ FanInStep /\ UNCHANGED <<pagevars, storagevars, extvars>>

SpecFanIn == InitMerge /\ [][NextMerge]_vars

\* One page between a writer and the worker that mirrors the cache.
InitSync == InitPage(PageLength) /\ IdleStorage /\ IdleCursor /\ IdleExt

NextSync ==
    \/ SyncAdd /\ UNCHANGED <<storagevars, cursorvars, workervars, racevars, writervars>>
    \/ SyncOffsets /\ UNCHANGED <<storagevars, cursorvars, workervars, racevars, writervars>>
    \/ SyncMeetsAdd /\ UNCHANGED <<storagevars, cursorvars, workervars, racevars, writervars>>

SpecSync == InitSync /\ [][NextSync]_vars

\* The background worker, the writers that notify it and the stop flag.
InitDrain == InitPage(PageLength) /\ InitWorker /\ IdleCursor /\ IdleSync /\ IdleRace /\ IdleWriters

NextDrain ==
    \/ WorkerAppend /\ UNCHANGED <<pagevars, cursorvars, syncvars, racevars, writervars>>
    \/ NotifyWorker /\ UNCHANGED <<pagevars, cursorvars, syncvars, racevars, writervars>>
    \/ WorkerStart /\ UNCHANGED <<pagevars, cursorvars, syncvars, racevars, writervars>>
    \/ WorkerWait /\ UNCHANGED <<pagevars, cursorvars, syncvars, racevars, writervars>>
    \/ WorkerWake /\ UNCHANGED <<pagevars, cursorvars, syncvars, racevars, writervars>>
    \/ WorkerDrain /\ UNCHANGED <<pagevars, cursorvars, syncvars, racevars, writervars>>
    \/ WorkerCheckStop /\ UNCHANGED <<pagevars, cursorvars, syncvars, racevars, writervars>>
    \/ StopWorker /\ UNCHANGED <<pagevars, cursorvars, syncvars, racevars, writervars>>

SpecWorker == InitDrain /\ [][NextDrain]_vars

\* The worker thread is scheduled: a step it can take is taken eventually.
SpecWorkerLive == SpecWorker /\ WF_vars(WorkerSteps /\ UNCHANGED <<pagevars, cursorvars, syncvars, racevars, writervars>>)

\* One page between a writer inside add_entry and a reader.
InitRace == InitPage(PageLength) /\ IdleStorage /\ IdleCursor /\ IdleExt

NextRace ==
    \/ RaceAdd /\ UNCHANGED <<storagevars, cursorvars, syncvars, workervars, writervars>>
    \/ RaceAdd2 /\ UNCHANGED <<storagevars, cursorvars, syncvars, workervars, writervars>>
    \/ RaceStore /\ UNCHANGED <<storagevars, cursorvars, syncvars, workervars, writervars>>

SpecRace == InitRace /\ [][NextRace]_vars

\* Two writers inside Storage::write, one of which may be rotating.
InitWrite ==
    InitPage(PageLength) /\ InitWriters /\ IdleCursor /\ IdleSync /\ IdleWorker /\ IdleRace

NextWrite ==
    \/ WriterCapture /\ UNCHANGED <<pagevars, cursorvars, syncvars, workervars, racevars>>
    \/ WriterAppend /\ UNCHANGED <<pagevars, cursorvars, syncvars, workervars, racevars>>
    \/ WriterAdvance /\ UNCHANGED <<pagevars, cursorvars, syncvars, workervars, racevars>>
    \/ WriterBump /\ UNCHANGED <<pagevars, cursorvars, syncvars, workervars, racevars>>
    \/ WriterSwitch /\ UNCHANGED <<pagevars, cursorvars, syncvars, workervars, racevars>>

SpecWriters == InitWrite /\ [][NextWrite]_vars

\* ------------------------------------------------------------- claims

\* The results the finished search put on the cursor.
Puts == {k \in 1..Len(result.calls) : result.calls[k].op = "put"}

\* The index positions whose entry satisfies the query.
Qualifying(p, q, n) ==
    {i \in 0..(n - 1) :
        LET e == EntryAtIndex(p, i, NoGarbage)
        IN  e.param_id = q.param /\ q.lowerbound <= e.time /\ e.time <= q.upperbound}

\* The index is ordered by (timestamp, param_id) and holds timestamps of the
\* valid range only.
SortedPage(p) ==
    /\ \A i \in 0..(p.count - 1) :
           EntryAtIndex(p, i, NoGarbage).time \in MIN_TIMESTAMP..MAX_TIMESTAMP
    /\ \A i, j \in 0..(p.count - 1) :
           i < j => ~ CacheLess(p, PageIndex(p, j, NoGarbage), PageIndex(p, i, NoGarbage))

\* C1: every result a search on a valid query puts on the cursor is an entry
\* whose param_id is the queried one and whose timestamp lies in
\* [lowerbound, upperbound].
C1_SearchEmitsOnlyMatches ==
    (op = "search" /\ validate_query(query)) =>
        \A k \in Puts :
            LET e == read_entry(page, result.calls[k].offset, garbage)
            IN  /\ e.param_id = query.param
                /\ query.lowerbound <= e.time
                /\ e.time <= query.upperbound

\* A search that put a result and also passed over an entry of another
\* parameter and an entry outside the time range.
C1_Witness ==
    /\ op = "search"
    /\ validate_query(query)
    /\ Puts # {}
    /\ \E i \in result.reads : EntryAtIndex(page, i, garbage).param_id # query.param
    /\ \E i \in result.reads : EntryAtIndex(page, i, garbage).time > query.upperbound

\* C2: on a sorted, fully synchronised page a search on a valid query puts
\* every entry that satisfies the query, entries that share the key's
\* timestamp included.
C2_SearchEmitsEveryMatch ==
    (/\ op = "search"
     /\ validate_query(query)
     /\ ~ result.fault
     /\ SortedPage(page)
     /\ page.sync_index = page.count) =>
        \A i \in Qualifying(page, query, page.sync_index) :
            \E k \in Puts : result.calls[k].index = i

\* C3: a search neither reads nor puts an index position at or beyond
\* sync_index.
C3_SearchStaysBelowSyncIndex ==
    op = "search" =>
        /\ \A i \in result.reads : i < page.sync_index
        /\ \A k \in Puts : result.calls[k].index < page.sync_index

\* C4: an add_entry call that returns OVERFLOW or BAD_DATA leaves every
\* field of the page and every cell of its memory as it was.
C4_FailedAddLeavesPage ==
    [][(op' = "add_entry"
        /\ status' \in {AKU_WRITE_STATUS_OVERFLOW, AKU_WRITE_STATUS_BAD_DATA})
       => page' = page]_vars

\* A page that holds entries has just refused one for lack of room.
C4_Witness ==
    /\ op = "add_entry"
    /\ status = AKU_WRITE_STATUS_OVERFLOW
    /\ page.count > 0
    /\ page.last_offset < page.length - 1

\* C5: whatever add_entry calls of either kind were made, the record heap
\* stays clear of the index array: last_offset is at least
\* sizeof(PageHeader) + count * sizeof(EntryOffset), so the free space is
\* never negative.
C5_HeapClearOfIndex ==
    /\ page.last_offset >= SizeofHeader + page.count * SizeofEntryOffset
    /\ get_free_space(page) >= 0

\* C6: the bounding box contains the param_id and the timestamp of every
\* entry stored in the page.
C6_BoundingBoxContainsEntries ==
    \A i \in 0..(page.count - 1) :
        LET e == EntryAtIndex(page, i, NoGarbage)
        IN  /\ page.bbox.min_id <= e.param_id
            /\ e.param_id <= page.bbox.max_id
            /\ page.bbox.min_timestamp <= e.time
            /\ e.time <= page.bbox.max_timestamp

\* C7: for every volume, through creation, startup selection (a restart after
\* a stop between close() of the old volume and open() of the next included)
\* and rotations, open_count >= close_count and open_count - close_count <= 1.
C7_EpochCounters ==
    \A i \in 1..Len(volumes) :
        /\ volumes[i].open_count >= volumes[i].close_count
        /\ volumes[i].open_count - volumes[i].close_count <= 1

\* C8: a cursor handed to Storage::search has, when the call returns, been
\* ended with complete or set_error.
C8_SearchEndsCursor ==
    sop.name = "search" =>
        \E k \in 1..Len(scursor) : scursor[k].op \in {"complete", "set_error"}

\* What C9 states of one advance_volume_ call made with the current revision,
\* but for the value of active_volume_index afterwards.
C9_Rotation ==
    LET n == Len(volumes)
        k == storage.active_volume
        next == (k + 1) % n
        new == volumes'[next + 1]
    IN  /\ storage'.active_volume = next
        /\ volumes'[k + 1].close_count = volumes[k + 1].close_count + 1
        /\ new.count = 0
        /\ new.sync_index = 0
        /\ new.last_offset = new.length - 1
        /\ new.bbox = PageBoundingBox
        /\ new.page_id = volumes[next + 1].page_id
        /\ new.open_count = volumes[next + 1].open_count + 1

\* C9 (as stated): advance_volume_ called with the current revision while
\* volume k of N is active makes volume (k+1) mod N active, bumps
\* active_volume_index modulo N so that it stays in [0, N), adds one to volume
\* k's close_count, and leaves the new active page empty with its page_id
\* kept and its open_count one larger.
C9_AdvanceVolume ==
    [][(sop'.name = "advance_volume" /\ sop'.switched) =>
          /\ C9_Rotation
          /\ storage'.active_volume_index =
                 (storage.active_volume_index + 1) % Len(volumes)
          /\ storage'.active_volume_index \in 0..(Len(volumes) - 1)]_vars

\* C9 (amended): the same, except that active_volume_index grows by exactly
\* one and is not reduced: the active volume is the one at
\* active_volume_index mod N.
C9_AdvanceVolumeCounting ==
    [][(sop'.name = "advance_volume" /\ sop'.switched) =>
          /\ C9_Rotation
          /\ storage'.active_volume_index = storage.active_volume_index + 1
          /\ storage'.active_volume = storage'.active_volume_index % Len(volumes)]_vars

\* A rotation has just wrapped around a ring of two volumes onto a volume
\* that was in use before.
C9_Witness ==
    /\ sop.name = "advance_volume"
    /\ sop.switched
    /\ Len(volumes) = 2
    /\ storage.active_volume_index >= 2
    /\ volumes[storage.active_volume + 1].open_count >= 2

\* The put calls that returned true.
Accepted(r) == r.ret

\* C10: the consumer's reads return the results in the order the producer
\* put them, none lost and none twice; once the consumer has called close, no
\* further result reaches it and every put that follows returns false.
C10_CursorOrder ==
    /\ delivered = [k \in 1..Len(SelectSeq(putlog, Accepted)) |->
                       SelectSeq(putlog, Accepted)[k].item]
    /\ delivered = SubSeq(producer.items, 1, Len(delivered))
    /\ cursor.closed =>
           /\ \A k \in (chistory.closed_at + 1)..Len(putlog) : ~ putlog[k].ret
           /\ cursor.usr_buffer = chistory.seen_at_close

\* The consumer read twice and closed, and the producer put again afterwards.
C10_Witness ==
    /\ cursor.closed
    /\ chistory.reads >= 2
    /\ Len(delivered) >= 2
    /\ Len(putlog) > chistory.closed_at

\* C11: the output of the fan-in merger is the order-preserving merge of its
\* ordered inputs: ordered by (timestamp, param_id) in the direction, holding
\* each input's results once and in the input's order, with equal keys in
\* source order.
C11_FanInMerge ==
    LET out == fanin.out
    IN  /\ \A i, j \in 1..Len(out) :
               i < j => ~ KeyBefore(fanin.direction, out[j].key, out[i].key)
        /\ \A i \in 1..Len(out) :
               out[i].key = fanin.inputs[out[i].source][out[i].position]
        /\ \A s \in 1..Len(fanin.inputs) :
               LET mine == {i \in 1..Len(out) : out[i].source = s}
               IN  /\ Cardinality(mine) = fanin.taken[s]
                   /\ {out[i].position : i \in mine} = 1..fanin.taken[s]
        /\ \A i, j \in 1..Len(out) :
               (i < j /\ out[i].key = out[j].key) =>
                   \/ out[i].source < out[j].source
                   \/ (out[i].source = out[j].source
                       /\ out[i].position < out[j].position)
        /\ HeapSources(fanin) = {} =>
               \A s \in 1..Len(fanin.inputs) : fanin.taken[s] = Len(fanin.inputs[s])

\* A finished merge of two cursors that shared a key and also held different
\* keys.
C11_Witness ==
    /\ Len(fanin.inputs) = 2
    /\ HeapSources(fanin) = {}
    /\ Len(fanin.out) >= 3
    /\ \E i, j \in 1..Len(fanin.out) :
           /\ fanin.out[i].source # fanin.out[j].source
           /\ fanin.out[i].key = fanin.out[j].key
    /\ \E i, j \in 1..Len(fanin.out) : fanin.out[i].key # fanin.out[j].key

\* C12: once a put has returned false during a search, the search makes no
\* further call on the cursor: no put and no complete.
C12_SearchStopsWhenRefused ==
    op = "search" =>
        \A k \in Puts :
            ~ PutReturned(result.calls, closing, k) => k = Len(result.calls)

\* C13: a search whose direction is neither forward nor backward, or whose
\* upperbound is below its lowerbound, calls set_error(SEARCH_EBAD_ARG) once
\* and nothing else on the cursor, reads no index position and leaves the page
\* as it was.
C13_BadQueryOnlySetsError ==
    [][(/\ op' = "search"
        /\ \/ query'.direction \notin {AKU_CURSOR_DIR_FORWARD, AKU_CURSOR_DIR_BACKWARD}
           \/ query'.upperbound < query'.lowerbound) =>
          /\ result'.calls = <<[op |-> "set_error", code |-> AKU_SEARCH_EBAD_ARG]>>
          /\ result'.reads = {}
          /\ page' = page]_vars

\* A search with its bounds inverted has run on a page that holds entries.
C13_Witness ==
    /\ op = "search"
    /\ query.direction = AKU_CURSOR_DIR_FORWARD
    /\ query.upperbound < query.lowerbound
    /\ page.count > 1
    /\ Len(result.calls) = 1

\* C14: whatever add_entry, sort, sync_indexes and reuse calls were made on a
\* page, sync_index <= count.
C14_SyncIndexWithinCount == page.sync_index <= page.count

\* The index positions 0..count-1 of p that hold the offset o.
SlotsOf(p, o) == {i \in 0..(p.count - 1) : PageIndex(p, i, NoGarbage) = o}

\* C15: after sort() the index is non-decreasing in (timestamp, param_id),
\* timestamps compared as signed integers, and holds the offsets it held
\* before, each as often.
C15_SortOrdersIndex ==
    [][op' = "sort" =>
          /\ \A i, j \in 0..(page'.count - 1) :
                 i < j => ~ CacheLess(page', PageIndex(page', j, NoGarbage),
                                             PageIndex(page', i, NoGarbage))
          /\ page'.count = page.count
          /\ \A i \in 0..(page.count - 1) :
                 Cardinality(SlotsOf(page', PageIndex(page, i, NoGarbage)))
                     = Cardinality(SlotsOf(page, PageIndex(page, i, NoGarbage)))]_vars

\* What read_entry_at(i) lets the caller see: the header fields and the
\* payload, which is the `length` cells of the record less its header.
ReadBack(p, i) ==
    LET offset == PageIndex(p, i, NoGarbage)
        e == read_entry(p, offset, NoGarbage)
    IN  [param_id |-> e.param_id, time |-> e.time, length |-> e.length,
         value |-> [k \in 1..(e.length - SizeofEntry) |->
                       ReadCell(p, offset + SizeofEntry + k - 1, 0)]]

\* C16: on a page never reused nor synced, an add_entry call that returns
\* SUCCESS leaves every record appended before readable as it was, and
\* read_entry_at(count - 1) yields what was appended: for the Entry form the
\* entry itself, for the Entry2 form its param_id, timestamp and payload, with
\* a length that is the payload's, the record's or the stored size.
C16_AppendedReadBack ==
    [][(/\ op' = "add_entry"
        /\ status' = AKU_WRITE_STATUS_SUCCESS
        /\ page.open_count = 0
        /\ page.sync_index = 0) =>
          /\ \A i \in 0..(page.count - 1) : ReadBack(page', i) = ReadBack(page, i)
          /\ \/ \E e \in EntryInputs :
                    /\ page' = add_entry(page, e).page
                    /\ ReadBack(page', page.count) = e
             \/ \E e \in Entry2Inputs :
                    /\ page' = add_entry2(page, e).page
                    /\ ReadBack(page', page.count).param_id = e.param_id
                    /\ ReadBack(page', page.count).time = e.time
                    /\ ReadBack(page', page.count).value = e.data
                    /\ ReadBack(page', page.count).length \in
                           {e.range.length, SizeofEntry + e.range.length,
                            SizeofEntry2 + SizeofUint32 + e.range.length}]_vars

\* C17: the offsets one search passes to put follow the scan direction's
\* order: timestamps never decrease in a forward scan and never increase in a
\* backward scan.
C17_EmissionOrder ==
    op = "search" =>
        \A k, l \in Puts :
            k < l =>
                LET a == read_entry(page, result.calls[k].offset, garbage).time
                    b == read_entry(page, result.calls[l].offset, garbage).time
                IN  IF query.direction = AKU_CURSOR_DIR_FORWARD THEN a <= b ELSE a >= b

\* C18: at rest the record heap is exactly the cells [last_offset, length):
\* last_offset plus the stored sizes of the records appended since
\* construction or the last reuse() equals the page length.
C18_HeapAccounting == page.last_offset + stored = page.length

\* C18 as the code keeps it: the heap is the cells [last_offset, length - 1),
\* the page's last cell staying unused, so last_offset plus the stored sizes
\* of the records appended since construction or the last reuse() equals
\* length - 1.
C18_HeapBelowLastCell == page.last_offset + stored = page.length - 1

\* A reused page that took a record of each form since.
C18_Witness ==
    /\ op = "add_entry"
    /\ status = AKU_WRITE_STATUS_SUCCESS
    /\ page.open_count = 1
    /\ page.count = 2
    /\ stored = SizeofEntry + SizeofEntry2 + SizeofUint32

\* C19: when a process starts on volumes that no process ever stopped on
\* inside a rotation, select_active_page makes the volume that was
\* the write target before (the one with page_id 0 after creation) the active
\* one and rotates no further: no volume is closed, reallocated or opened.
C19_SelectsLastTarget ==
    [][sop'.name = "open" /\ ~ crashed =>
          /\ storage'.active_volume = (IF sop.name = "stop" THEN sop.target ELSE 0)
          /\ \A i \in 1..Len(volumes) :
                 volumes[i].open_count <= volumes[storage'.active_volume + 1].open_count
          /\ volumes' = volumes]_vars

\* A restart after a rotation that left both volumes with the same
\* open_count, the later one being the write target.
C19_Witness ==
    /\ sop.name = "open"
    /\ ~ crashed
    /\ Len(volumes) = 2
    /\ storage.active_volume = 1
    /\ volumes[1].open_count = volumes[2].open_count
    /\ volumes[1].close_count = 1

\* C20: advance_volume_(rev) called while active_volume_index differs from
\* rev changes nothing: no volume is closed, reallocated or opened and the
\* active volume stays.  A call whose rev matches moves active_volume_index
\* to rev + 1, so of the calls made with one rev exactly the first rotates.
C20_StaleAdvanceAbsorbed ==
    [][sop'.name = "advance_volume" =>
          IF sop'.switched
          THEN /\ storage'.active_volume_index = storage.active_volume_index + 1
               /\ storage'.active_volume = storage'.active_volume_index % Len(volumes)
          ELSE /\ volumes' = volumes
               /\ storage' = storage]_vars

\* A call with the revision of before the last rotation, made on a volume that
\* holds entries.
C20_Witness ==
    /\ sop.name = "advance_volume"
    /\ ~ sop.switched
    /\ storage.active_volume_index >= 1
    /\ volumes[storage.active_volume + 1].count >= 1

\* What a reader can tell of a page: its header fields, the index slots
\* below count and the records behind them.
Visible(p) ==
    [count |-> p.count, last_offset |-> p.last_offset, sync_index |-> p.sync_index,
     bbox |-> p.bbox,
     page_index |-> [i \in 0..(p.count - 1) |-> PageIndex(p, i, NoGarbage)],
     records |-> [a \in p.last_offset..(p.length - 1) |-> ReadCell(p, a, 0)]]

\* C21: from a page with sync_index <= count, add_entry and
\* sync_indexes(offsets, n) yield the same count, last_offset, sync_index,
\* bbox, index and records in either order, whatever n is.
C21_AddSyncCommute ==
    op = "add_entry+sync_indexes" => Visible(page) = Visible(alt)

\* C21 for the calls the clamp of sync_indexes does not cut: with n at most
\* count - sync_index of the page both orders start from, add_entry and
\* sync_indexes(offsets, n) yield the same page in either order.
C21_AddSyncCommuteUnclamped ==
    [][(/\ op' = "add_entry+sync_indexes"
        /\ syncin'.n <= page.count - page.sync_index) =>
          Visible(page') = Visible(alt')]_vars

C21_Witness ==
    /\ op = "add_entry+sync_indexes"
    /\ status = AKU_WRITE_STATUS_SUCCESS
    /\ syncin.n = 1
    /\ page.sync_index = 1
    /\ page.count = 2
    /\ PageIndex(page, 1, NoGarbage) # PageIndex(page, 0, NoGarbage)

\* C22: sync_indexes(offsets, n) on a page with sync_index = s <= count
\* writes only the index slots [s, min(s + n, count)), sets sync_index to
\* min(s + n, count), and leaves page_index[0..s), count, last_offset, bbox
\* and every record as they were.
C22_SyncFrame ==
    [][(op' = "sync_indexes" /\ page.sync_index <= page.count) =>
          LET s == page.sync_index
              m == IF s + syncin'.n < page.count THEN s + syncin'.n ELSE page.count
          IN  /\ page'.sync_index = m
              /\ \A i \in 0..(page.count - 1) :
                     PageIndex(page', i, NoGarbage) =
                         IF i >= s /\ i < m THEN syncin'.offsets[i - s + 1]
                         ELSE PageIndex(page, i, NoGarbage)
              /\ page'.count = page.count
              /\ page'.last_offset = page.last_offset
              /\ page'.bbox = page.bbox
              /\ \A a \in page.last_offset..(page.length - 1) :
                     ReadCell(page', a, 0) = ReadCell(page, a, 0)
              /\ \A a \in DOMAIN page.mem :
                     (a < IndexAddr(s) \/ a >= IndexAddr(m)) => page'.mem[a] = page.mem[a]]_vars

\* A call given two offsets that left both entries of the page synchronised.
C22_Witness ==
    /\ op = "sync_indexes"
    /\ page.count = 2
    /\ page.sync_index = 2
    /\ syncin.n = 2
    /\ PageIndex(page, 0, NoGarbage) # syncin.offsets[1]

\* C23: the worker pops a queue item only in a pass whose pick_last
\* succeeded and that called sync_indexes on the head volume's page; a pass
\* whose pick_last failed leaves outgoing_ and every page (sync_index
\* included) as they were, so the next pass finds the same head.
C23_PopOnlyAfterSync ==
    [][/\ (wop'.name = "drain" /\ ~ wop'.ok) =>
             /\ outgoing' = outgoing
             /\ volumes' = volumes
             /\ Head(outgoing') = wop'.volume
       /\ (wop'.name = "drain" /\ wop'.ok) =>
             /\ outgoing' = Tail(outgoing)
             /\ synclog' = Append(synclog, Head(outgoing))
             /\ volumes'[Head(outgoing)].sync_index = volumes[Head(outgoing)].count
       /\ (wpc \notin {"start", "blocked", "done"} /\ outgoing' # outgoing) =>
             (wop'.name = "drain" /\ wop'.ok)]_vars

\* A failed pass with two items queued, on a page that holds an entry not yet
\* synchronised.
C23_Witness ==
    /\ wop.name = "drain"
    /\ ~ wop.ok
    /\ Len(outgoing) = 2
    /\ volumes[wop.volume].count = 1
    /\ volumes[wop.volume].sync_index = 0

\* C24: while stop_worker_ is not set and the cache succeeds, every item
\* notify_worker_ pushed is eventually popped after a sync_indexes call on its
\* volume's page, the items being served in the order they were pushed.
C24_EveryItemDrained ==
    /\ [](/\ Len(synclog) <= Len(pushed)
          /\ \A k \in 1..Len(synclog) : synclog[k] = pushed[k]
          /\ (cache = "ok" => Len(outgoing) = Len(pushed) - Len(synclog)))
    /\ \A k \in 1..MaxPush :
           (Len(pushed) >= k /\ cache = "ok") ~> (Len(synclog) >= k \/ stop_worker)

\* Both volumes were notified for, in turn, and both were synchronised.
C24_Witness ==
    /\ cache = "ok"
    /\ ~ stop_worker
    /\ Len(pushed) = MaxPush
    /\ synclog = pushed
    /\ \E k \in 1..(Len(pushed) - 1) : pushed[k] # pushed[k + 1]
    /\ \E v \in 1..Len(volumes) : volumes[v].sync_index = 1

\* C28: once stop_worker_ is set the worker leaves its loop and returns, be
\* the queue empty or not, and whatever the cache answers.
C28_StopEndsWorker == stop_worker ~> (wpc = "done")

C26_SearchStaysInIndex ==
    (/\ op = "search"
     /\ query.direction \in {AKU_CURSOR_DIR_FORWARD, AKU_CURSOR_DIR_BACKWARD}
     /\ query.lowerbound <= query.upperbound) =>
        /\ result.reads \subseteq 0..(page.count - 1)
        /\ Len(result.calls) >= 1
        /\ result.calls[Len(result.calls)].op = "complete"
        /\ Cardinality({k \in 1..Len(result.calls) : result.calls[k].op = "complete"}) = 1
        /\ page.count = 0 => Puts = {}

\* C27: on a sorted page of at least cutoff + 1 entries, a search whose key
\* lies inside the bbox timestamp range never computes a probe with the
\* divisor search_upper_bound - search_lower_bound equal to zero, pages whose
\* entries all carry one timestamp included.
C27_InterpolationDivisor ==
    (/\ op = "search"
     /\ query.direction \in {AKU_CURSOR_DIR_FORWARD, AKU_CURSOR_DIR_BACKWARD}
     /\ query.lowerbound <= query.upperbound
     /\ SortedPage(page)
     /\ page.count >= AKU_INTERPOLATION_SEARCH_CUTOFF + 1
     /\ LET key == IF query.direction = AKU_CURSOR_DIR_BACKWARD
                   THEN query.upperbound ELSE query.lowerbound
        IN  key <= page.bbox.max_timestamp /\ key >= page.bbox.min_timestamp) =>
        ~ result.fault

\* C29: under any interleaving of two writers with a rotation in progress,
\* advance_volume_ closes a volume only if that volume's own page reported
\* OVERFLOW to the caller, and the volume it closes holds an entry: a freshly
\* opened volume is never closed and skipped.
C29_ClosesOnlyFullVolumes ==
    /\ \A k \in 1..Len(closes) : closes[k].reported
    /\ \A w \in Writers :
           writers[w].pc = "closed" => volumes[storage.active_volume + 1].count > 0

=============================================================================
